---- MODULE Spec2Model ----
(***************************************************************************)
(* Model of process_and_zip (src/app.py): an uploaded spreadsheet is read, *)
(* its rows are split by the distinct values of one column, every group is *)
(* written as one .xlsx member of an in-memory ZIP archive, and the row    *)
(* counts are reconciled in the log.                                       *)
(*                                                                         *)
(* Text is a sequence of one-character strings.  The rows of the sheet are *)
(* identified by their position (the DataFrame's RangeIndex); the model    *)
(* carries the key column's cells, the other columns travel with the row   *)
(* position.  A key cell is empty or holds text; an upload that cannot be  *)
(* parsed, a column name missing from the header and a row that to_excel   *)
(* cannot render are inputs of the run.                                    *)
(***************************************************************************)
EXTENDS Integers, Sequences, FiniteSets

VARIABLES
    pc,                   \* position of the run in process_and_zip
    sheet,                \* input: the key column's cells as stored in the file
    readable,             \* input: pd.read_excel can parse the upload
    column_name,          \* input: the column name the caller passes
    badRow,               \* input: row that to_excel cannot render (0 = none)
    df,                   \* the key column of the DataFrame read from the sheet
    total_rows,
    unique_values,
    i,                    \* loop counter of enumerate(unique_values, 1)
    processed_rows_count,
    groups,               \* the df_group selections made so far, as row positions
    zf,                   \* members written to the ZipFile, in write order
    logs,                 \* the closure's log list
    ret,                  \* what process_and_zip returned
    sv, si, sj,           \* sanitizer study: key text and two positions
    sname, sagain, sother \* sanitizer study: the names computed

vars == <<pc, sheet, readable, column_name, badRow, df, total_rows, unique_values,
          i, processed_rows_count, groups, zf, logs, ret,
          sv, si, sj, sname, sagain, sother>>

sanVars == <<sv, si, sj, sname, sagain, sother>>

----------------------------------------------------------------------------
(* Bounds of the model *)

MaxRows == 3

MaxLen == 3

MaxPos == 11

----------------------------------------------------------------------------
(* Characters and text *)

\* str.isalnum() on the characters the model uses; the five CJK characters of
\* the placeholder are letters (category Lo), written here by code point
CJK == {"U672A", "U547D", "U540D", "U9879", "U76EE"}

DigitChars == <<"0", "1", "2", "3", "4", "5", "6", "7", "8", "9">>

Letters == {"A", "B", "C", "N", "o", "x", "l", "s"}

isalnum(c) == c \in Letters \/ c \in CJK \/ (\E d \in 1..10 : DigitChars[d] = c)

\* str.isspace() on the characters the model uses
isspace(c) == c \in {" ", "\t"}

\* a filter that also lets the dot of a file extension through
KeepCharAndDot(c) == isalnum(c) \/ c \in {" ", "_", "-", "."}

\* the filter of the list comprehension at line 56
KeepChar(c) == isalnum(c) \/ c \in {" ", "_", "-"}

RECURSIVE Filter(_)
\* "".join([c for c in text if KeepChar(c)])
Filter(text) ==
    IF text = <<>> THEN <<>>
    ELSE IF KeepChar(Head(text)) THEN <<Head(text)>> \o Filter(Tail(text))
         ELSE Filter(Tail(text))

RECURSIVE rstrip(_)
\* str.rstrip(): drop trailing whitespace
rstrip(text) ==
    IF text = <<>> THEN <<>>
    ELSE IF isspace(text[Len(text)]) THEN rstrip(SubSeq(text, 1, Len(text) - 1))
         ELSE text

RECURSIVE Digits(_)
\* str(n) for a natural number n
Digits(n) ==
    IF n < 10 THEN <<DigitChars[n + 1]>>
    ELSE Digits(n \div 10) \o <<DigitChars[(n % 10) + 1]>>

\* a placeholder that leaves the position out
PlaceholderNoIndex(k) == <<"U672A", "U547D", "U540D", "U9879", "U76EE">>

\* f"未命名项目_{i}"
Placeholder(k) == <<"U672A", "U547D", "U540D", "U9879", "U76EE", "_">> \o Digits(k)

\* str(value): a text key is its own text
str(value) == value

\* lines 56-58: the sanitized base name of the key at 1-based position k
safe_filename(value, k) ==
    LET cleaned == rstrip(Filter(str(value)))
    IN  IF cleaned = <<>> THEN Placeholder(k) ELSE cleaned

\* line 60
output_filename_in_zip(value, k) ==
    safe_filename(value, k) \o <<".", "x", "l", "s", "x">>

----------------------------------------------------------------------------
(* The sheet and the DataFrame *)

\* an empty cell of the sheet, and the missing value of the DataFrame
None == <<"<None>">>

NaN == <<"<NaN>">>

\* the header of the modelled sheet
Header == {"K", "V"}

ColumnNames == {"K", "X"}

\* text that pd.read_excel turns into NaN by default (keep_default_na)
NAStrings == {<<>>, <<"N", "A">>}

\* the cells a sheet of the model can hold in its key column
Cells == {None, <<>>, <<" ">>, <<"A">>, <<"B">>, <<"A", "/">>, <<"*">>, <<"N", "A">>}

Sheets == UNION {[1..n -> Cells] : n \in 0..MaxRows}

\* pd.read_excel(uploaded_file): column K of the frame
read_excel(cells) ==
    [r \in 1..Len(cells) |->
        IF cells[r] = None \/ cells[r] \in NAStrings THEN NaN ELSE cells[r]]

\* a key extraction that forgets dropna()
dropnaKeepAll(col) == col

\* Series.dropna()
dropna(col) == SelectSeq(col, LAMBDA v : v # NaN)

\* a deduplication that forgets to deduplicate
uniqueNoDedup(col) == col

RECURSIVE uniqueByLast(_)
\* a deduplication that keeps the last occurrence of a value instead of the first
uniqueByLast(col) ==
    IF col = <<>> THEN <<>>
    ELSE LET rest == uniqueByLast(Tail(col))
         IN  IF \E k \in 1..Len(rest) : rest[k] = Head(col) THEN rest
             ELSE <<Head(col)>> \o rest

RECURSIVE unique(_)
\* Series.unique(): the distinct values in order of first appearance
unique(col) ==
    IF col = <<>> THEN <<>>
    ELSE LET init == unique(SubSeq(col, 1, Len(col) - 1))
             last == col[Len(col)]
         IN  IF \E k \in 1..Len(init) : init[k] = last THEN init
             ELSE Append(init, last)

\* elementwise ==: a missing value equals nothing
Eq(a, b) == a # NaN /\ b # NaN /\ a = b

RECURSIVE RowsFrom(_, _, _)
RowsFrom(col, value, r) ==
    IF r > Len(col) THEN <<>>
    ELSE IF Eq(col[r], value) THEN <<r>> \o RowsFrom(col, value, r + 1)
         ELSE RowsFrom(col, value, r + 1)

\* line 51: df[df[column_name] == value], as the selected row positions
df_group(col, value) == RowsFrom(col, value, 1)

\* a counter that is overwritten instead of added to
AccumulateLast(count, n) == n

\* line 53: processed_rows_count += num_rows_in_group
Accumulate(count, n) == count + n

\* an exception handler that hands out the archive written so far
ReturnPartial == "archive"

\* line 92: return None, None
ReturnOnError == "None"

\* line 87: return zip_buffer, source_filename
ReturnOnSuccess == "archive"

----------------------------------------------------------------------------
(* The log *)

\* log_message: append one line to the closure's list
log_message(lines, message) == Append(lines, message)

\* lines 90-91: the two lines the exception handler logs
LogError(lines, e) == log_message(log_message(lines, <<"error", e>>), <<"advice">>)

\* a reconciliation that subtracts the wrong way round
ReconciliationSwapped(total, processed, column) ==
    IF total = processed
    THEN << <<"ok", total, processed>> >>
    ELSE << <<"warn", processed - total>>, <<"reason", column>> >>

\* lines 78-83: the reconciliation lines
Reconciliation(total, processed, column) ==
    IF total = processed
    THEN << <<"ok", total, processed>> >>
    ELSE << <<"warn", total - processed>>, <<"reason", column>> >>

----------------------------------------------------------------------------
(* The run of process_and_zip *)

Init ==
    /\ pc = "Idle"
    /\ readable \in BOOLEAN
    /\ sheet \in (IF readable THEN Sheets ELSE {<<>>})
    /\ column_name \in (IF readable THEN ColumnNames ELSE {"K"})
    /\ badRow \in 0..Len(sheet)
    /\ df = <<>>
    /\ total_rows = 0
    /\ unique_values = <<>>
    /\ i = 0
    /\ processed_rows_count = 0
    /\ groups = <<>>
    /\ zf = <<>>
    /\ logs = <<>>
    /\ ret = "pending"
    /\ sv = <<>> /\ si = 0 /\ sj = 0
    /\ sname = <<>> /\ sagain = <<>> /\ sother = <<>>

\* lines 21-33
Start ==
    /\ pc = "Idle"
    /\ logs' = log_message(logs, <<"prepare">>)
    /\ pc' = "Reading"
    /\ UNCHANGED <<sheet, readable, column_name, badRow, df, total_rows,
                   unique_values, i, processed_rows_count, groups, zf, ret>>
    /\ UNCHANGED sanVars

\* lines 34-37
ReadOk ==
    /\ pc = "Reading"
    /\ readable
    /\ df' = read_excel(sheet)
    /\ total_rows' = Len(df')
    /\ logs' = log_message(logs, <<"read", total_rows'>>)
    /\ pc' = "ExtractingKeys"
    /\ UNCHANGED <<sheet, readable, column_name, badRow, unique_values, i,
                   processed_rows_count, groups, zf, ret>>
    /\ UNCHANGED sanVars

\* line 34 raising, lines 89-92
ReadFail ==
    /\ pc = "Reading"
    /\ ~readable
    /\ logs' = LogError(logs, "FormatError")
    /\ ret' = ReturnOnError
    /\ pc' = "Failed"
    /\ UNCHANGED <<sheet, readable, column_name, badRow, df, total_rows,
                   unique_values, i, processed_rows_count, groups, zf>>
    /\ UNCHANGED sanVars

\* a key extraction that falls back to the key column when the name is unknown
ExtractAnyColumn ==
    /\ pc = "ExtractingKeys"
    /\ unique_values' = unique(dropna(df))
    /\ logs' = log_message(log_message(logs, <<"found", column_name, Len(unique_values')>>),
                           <<"sep">>)
    /\ pc' = "Partitioning"
    /\ UNCHANGED <<sheet, readable, column_name, badRow, df, total_rows, i,
                   processed_rows_count, groups, zf, ret>>
    /\ UNCHANGED sanVars

\* lines 39-41
ExtractOk ==
    /\ pc = "ExtractingKeys"
    /\ column_name \in Header
    /\ unique_values' = unique(dropna(df))
    /\ logs' = log_message(log_message(logs, <<"found", column_name, Len(unique_values')>>),
                           <<"sep">>)
    /\ pc' = "Partitioning"
    /\ UNCHANGED <<sheet, readable, column_name, badRow, df, total_rows, i,
                   processed_rows_count, groups, zf, ret>>
    /\ UNCHANGED sanVars

\* line 39 raising KeyError, lines 89-92
ExtractFail ==
    /\ pc = "ExtractingKeys"
    /\ column_name \notin Header
    /\ logs' = LogError(logs, "KeyError")
    /\ ret' = ReturnOnError
    /\ pc' = "Failed"
    /\ UNCHANGED <<sheet, readable, column_name, badRow, df, total_rows,
                   unique_values, i, processed_rows_count, groups, zf>>
    /\ UNCHANGED sanVars

\* lines 44-48: the archive is opened and the counter zeroed; the rows of each
\* group are selected inside the loop
Partition ==
    /\ pc = "Partitioning"
    /\ zf' = <<>>
    /\ processed_rows_count' = 0
    /\ i' = 0
    /\ pc' = IF Len(unique_values) = 0 THEN "Reconciling" ELSE "Serializing"
    /\ UNCHANGED <<sheet, readable, column_name, badRow, df, total_rows,
                   unique_values, groups, logs, ret>>
    /\ UNCHANGED sanVars

\* lines 50-72: one iteration of the loop
SerializeGroup ==
    /\ pc = "Serializing"
    /\ i < Len(unique_values)
    /\ LET k == i + 1
           value == unique_values[k]
           rows == df_group(df, value)
           num_rows_in_group == Len(rows)
           name == output_filename_in_zip(value, k)
       IN  /\ \A n \in 1..Len(rows) : rows[n] # badRow
           /\ i' = k
           /\ groups' = Append(groups, [key |-> value, rows |-> rows])
           /\ processed_rows_count' = Accumulate(processed_rows_count, num_rows_in_group)
           /\ zf' = Append(zf, [name |-> name, rows |-> rows])
           /\ logs' = log_message(logs, <<"group", k, Len(unique_values), name,
                                         num_rows_in_group>>)
           /\ pc' = IF k = Len(unique_values) THEN "Reconciling" ELSE "Serializing"
    /\ UNCHANGED <<sheet, readable, column_name, badRow, df, total_rows,
                   unique_values, ret>>
    /\ UNCHANGED sanVars

\* a loop that swallows the exception and goes on with the next group
SerializeSkip ==
    /\ pc = "Serializing"
    /\ i < Len(unique_values)
    /\ LET k == i + 1
           value == unique_values[k]
           rows == df_group(df, value)
       IN  /\ \E n \in 1..Len(rows) : rows[n] = badRow
           /\ i' = k
           /\ groups' = Append(groups, [key |-> value, rows |-> rows])
           /\ processed_rows_count' = Accumulate(processed_rows_count, Len(rows))
           /\ pc' = IF k = Len(unique_values) THEN "Reconciling" ELSE "Serializing"
    /\ logs' = LogError(logs, "SerializationError")
    /\ UNCHANGED <<sheet, readable, column_name, badRow, df, total_rows,
                   unique_values, zf, ret>>
    /\ UNCHANGED sanVars

\* lines 50-64 with to_excel raising, lines 89-92
SerializeFail ==
    /\ pc = "Serializing"
    /\ i < Len(unique_values)
    /\ LET k == i + 1
           value == unique_values[k]
           rows == df_group(df, value)
       IN  /\ \E n \in 1..Len(rows) : rows[n] = badRow
           /\ i' = k
           /\ groups' = Append(groups, [key |-> value, rows |-> rows])
           /\ processed_rows_count' = Accumulate(processed_rows_count, Len(rows))
    /\ logs' = LogError(logs, "SerializationError")
    /\ ret' = ReturnOnError
    /\ pc' = "Failed"
    /\ UNCHANGED <<sheet, readable, column_name, badRow, df, total_rows,
                   unique_values, zf>>
    /\ UNCHANGED sanVars

\* lines 74-87
Reconcile ==
    /\ pc = "Reconciling"
    /\ logs' = log_message(log_message(logs, <<"sep">>), <<"alldone">>)
               \o Reconciliation(total_rows, processed_rows_count, column_name)
    /\ ret' = ReturnOnSuccess
    /\ pc' = "Done"
    /\ UNCHANGED <<sheet, readable, column_name, badRow, df, total_rows,
                   unique_values, i, processed_rows_count, groups, zf>>
    /\ UNCHANGED sanVars

Next ==
    \/ Start
    \/ ReadOk
    \/ ReadFail
    \/ ExtractOk
    \/ ExtractFail
    \/ Partition
    \/ SerializeGroup
    \/ SerializeFail
    \/ Reconcile

Spec == Init /\ [][Next]_vars

\* the run is one synchronous call: it keeps taking steps until it returns
FairSpec == Spec /\ WF_vars(Next)

----------------------------------------------------------------------------
(* The file-name sanitizer on its own: lines 56-58 applied to one key text  *)
(* at position si, applied again to the name it produced, and applied to    *)
(* the same text at another position sj                                     *)

SanChars == {"A", "1", " ", "_", "-", "/", "\t"}

Texts == UNION {[1..n -> SanChars] : n \in 0..MaxLen}

Example == <<"A", "/", "B", "*", "C", "o", ".">>

SanInit ==
    /\ pc = "san:value"
    /\ sv \in Texts \cup {Example}
    /\ si \in 1..MaxPos
    /\ sj = 0
    /\ sname = <<>> /\ sagain = <<>> /\ sother = <<>>
    /\ sheet = <<>> /\ readable = TRUE /\ column_name = "K" /\ badRow = 0
    /\ df = <<>> /\ total_rows = 0 /\ unique_values = <<>> /\ i = 0
    /\ processed_rows_count = 0 /\ groups = <<>> /\ zf = <<>> /\ logs = <<>>
    /\ ret = "pending"

\* lines 56-58 on the key text
SanApply ==
    /\ pc = "san:value"
    /\ sname' = safe_filename(sv, si)
    /\ pc' = "san:named"
    /\ UNCHANGED <<sv, si, sj, sagain, sother>>
    /\ UNCHANGED <<sheet, readable, column_name, badRow, df, total_rows,
                   unique_values, i, processed_rows_count, groups, zf, logs, ret>>

\* lines 56-58 on the name just produced, at the same position
SanReapply ==
    /\ pc = "san:named"
    /\ sagain' = safe_filename(sname, si)
    /\ pc' = "san:renamed"
    /\ UNCHANGED <<sv, si, sj, sname, sother>>
    /\ UNCHANGED <<sheet, readable, column_name, badRow, df, total_rows,
                   unique_values, i, processed_rows_count, groups, zf, logs, ret>>

\* lines 56-58 on the same key text at another position
SanOther ==
    /\ pc = "san:renamed"
    /\ \E j \in 1..MaxPos :
          /\ j # si
          /\ sj' = j
          /\ sother' = safe_filename(sv, j)
    /\ pc' = "san:done"
    /\ UNCHANGED <<sv, si, sname, sagain>>
    /\ UNCHANGED <<sheet, readable, column_name, badRow, df, total_rows,
                   unique_values, i, processed_rows_count, groups, zf, logs, ret>>

SanNext ==
    \/ SanApply
    \/ SanReapply
    \/ SanOther

SanSpec == SanInit /\ [][SanNext]_vars

----------------------------------------------------------------------------
(* Vocabulary of the properties *)

Rows == 1..Len(df)

Terminal == {"Done", "Failed"}

\* the loop has run to its end
LoopFinished == pc \in {"Reconciling", "Done"}

\* a key value that is null or empty in the DataFrame
NullOrEmpty(v) == v = NaN \/ v = <<>>

InSeq(x, seq) == \E n \in 1..Len(seq) : seq[n] = x

\* the groups that hold row r
GroupsOf(r) == {g \in 1..Len(groups) : InSeq(r, groups[g].rows)}

\* the archive members that hold row r
MembersOf(r) == {m \in 1..Len(zf) : InSeq(r, zf[m].rows)}

StrictlyIncreasing(seq) == \A m, n \in 1..Len(seq) : m < n => seq[m] < seq[n]

RECURSIVE SumRows(_)
SumRows(gs) == IF gs = <<>> THEN 0 ELSE Len(Head(gs).rows) + SumRows(Tail(gs))

NullRows == {r \in Rows : NullOrEmpty(df[r])}

----------------------------------------------------------------------------
(* C1: the groups partition the rows that have a key.  Every row of a group *)
(* carries the group's key, no row is in two groups or twice in one group,  *)
(* a row with a null/empty key is in no group, and once the loop has        *)
(* finished every row with a present key is in exactly one group.           *)
C1_Partition ==
    /\ \A g \in 1..Len(groups) :
          /\ \A n \in 1..Len(groups[g].rows) :
                /\ groups[g].rows[n] \in Rows
                /\ df[groups[g].rows[n]] = groups[g].key
          /\ StrictlyIncreasing(groups[g].rows)
    /\ \A r \in Rows : Cardinality(GroupsOf(r)) <= 1
    /\ \A r \in NullRows : GroupsOf(r) = {}
    /\ LoopFinished => \A r \in Rows \ NullRows : Cardinality(GroupsOf(r)) = 1

\* a finished loop over two groups with a null-key row left out
C1_Witness ==
    /\ pc = "Done"
    /\ Len(groups) = 2
    /\ NullRows # {}

(* C2: when the loop has finished, the processed row count is the sum of    *)
(* the groups' row counts, and together with the rows whose key is          *)
(* null/empty it equals the total input row count.                          *)
C2_Reconciliation ==
    LoopFinished =>
        /\ processed_rows_count = SumRows(groups)
        /\ processed_rows_count + Cardinality(NullRows) = total_rows
        /\ total_rows = Len(sheet)

\* the loop finished with rows processed in two groups and a null-key row
C2_Witness ==
    /\ pc = "Reconciling"
    /\ Len(groups) = 2
    /\ processed_rows_count = 2
    /\ Cardinality(NullRows) = 1

(* C3: no partial success.  A failed run returns no archive, also when      *)
(* members were already written; an archive is returned only by a run in    *)
(* which every discovered key has been serialized and written.              *)
C3_NoPartialSuccess ==
    /\ pc = "Failed" => ret = "None"
    /\ ret = "archive" =>
          /\ pc = "Done"
          /\ Len(zf) = Len(unique_values)
          /\ \A k \in 1..Len(unique_values) :
                zf[k].rows = df_group(df, unique_values[k])
    /\ pc \notin Terminal => ret = "pending"

\* serializing a later group failed after a member was written
C3_Witness ==
    /\ pc = "Failed"
    /\ Len(zf) >= 1
    /\ ret = "None"
    /\ logs[Len(logs) - 1] = <<"error", "SerializationError">>

(* C4 as stated: when the key column is not in the header the run fails     *)
(* with the missing-column error before any group is created, and the log   *)
(* ends with the read confirmation.                                         *)
C4_AsStated ==
    (pc = "Failed" /\ readable /\ column_name \notin Header) =>
        /\ groups = <<>>
        /\ logs[Len(logs)] = <<"read", total_rows>>

(* C4 amended: when the key column is not in the header the run never gets  *)
(* past key extraction; it fails with the missing-column error before any   *)
(* group is created or member written, and the log holds exactly the        *)
(* preparation line, the read confirmation, and the two lines of the        *)
(* exception handler (the error and the advice).                            *)
C4_MissingColumn ==
    (readable /\ column_name \notin Header) =>
        /\ pc \in {"Idle", "Reading", "ExtractingKeys", "Failed"}
        /\ groups = <<>> /\ zf = <<>> /\ unique_values = <<>>
        /\ pc = "Failed" =>
              /\ ret = "None"
              /\ logs = << <<"prepare">>, <<"read", total_rows>>,
                           <<"error", "KeyError">>, <<"advice">> >>

\* a run over a non-empty sheet that failed on the missing column
C4_Witness ==
    /\ pc = "Failed"
    /\ column_name \notin Header
    /\ total_rows = 2
    /\ logs[3] = <<"error", "KeyError">>

\* a cell that is empty, or text that is empty or blank (whitespace only)
EmptyOrBlank(cell) == cell = None \/ \A n \in 1..Len(cell) : isspace(cell[n])

(* C5 as stated: a row whose key is null or empty, blank text included, is  *)
(* never put in a group and produces no archive member.                     *)
C5_AsStated ==
    \A r \in Rows : EmptyOrBlank(sheet[r]) => (GroupsOf(r) = {} /\ MembersOf(r) = {})

(* C5 amended: a key counts as present only if it is non-null and non-empty *)
(* as read.  A row whose key cell is empty or holds empty text is read as   *)
(* null; it is never put in a group, produces no archive member, and is     *)
(* counted among the unprocessed rows at reconciliation.  Blank             *)
(* (whitespace-only) text is a present key: its rows form a group.          *)
C5_PresentKeys ==
    /\ \A k \in 1..Len(unique_values) : ~NullOrEmpty(unique_values[k])
    /\ \A g \in 1..Len(groups) : ~NullOrEmpty(groups[g].key)
    /\ \A r \in Rows :
          (sheet[r] = None \/ sheet[r] = <<>>) =>
              /\ GroupsOf(r) = {}
              /\ MembersOf(r) = {}
              /\ pc = "Done" =>
                    \E c \in 1..total_rows :
                       /\ InSeq(<<"warn", c>>, logs)
                       /\ c = Cardinality({q \in Rows : MembersOf(q) = {}})
    /\ \A r \in Rows :
          (pc = "Done" /\ sheet[r] = <<" ">>) =>
              \E g \in GroupsOf(r) : groups[g].key = <<" ">> /\ MembersOf(r) = {g}

\* a finished run over an empty cell, an empty text and a blank text
C5_Witness ==
    /\ pc = "Done"
    /\ \E r \in Rows : sheet[r] = None
    /\ \E r \in Rows : sheet[r] = <<>>
    /\ \E r \in Rows : sheet[r] = <<" ">>
    /\ InSeq(<<"warn", 2>>, logs)

(* C6: on a successful run the archive holds exactly one member per         *)
(* discovered key, in the order in which the keys first occur in the        *)
(* dataset; member k is named after key k (sanitized, or the placeholder    *)
(* for position k) with the extension .xlsx and holds exactly the rows      *)
(* whose key equals key k, in row order.  Two keys that sanitize to the     *)
(* same name give two members of that name, and the run succeeds.           *)
C6_Archive ==
    pc = "Done" =>
        /\ ret = "archive"
        /\ Len(zf) = Cardinality({df[r] : r \in Rows} \ {NaN})
        /\ \A k \in 1..Len(zf) :
              /\ zf[k].rows # <<>>
              /\ StrictlyIncreasing(zf[k].rows)
              /\ \A r \in Rows : InSeq(r, zf[k].rows) <=> df[r] = df[zf[k].rows[1]]
              /\ zf[k].name = output_filename_in_zip(df[zf[k].rows[1]], k)
        /\ \A k, m \in 1..Len(zf) : k < m => zf[k].rows[1] < zf[m].rows[1]

\* a finished run whose keys are not in sorted order and two of which
\* sanitize to the same member name
C6_Witness ==
    /\ pc = "Done"
    /\ Len(zf) = 3
    /\ zf[1].name = <<"B", ".", "x", "l", "s", "x">>
    /\ zf[2].name = <<"A", ".", "x", "l", "s", "x">>
    /\ zf[3].name = zf[2].name
    /\ df[zf[2].rows[1]] # df[zf[3].rows[1]]

----------------------------------------------------------------------------
(* Properties of the sanitizer *)

\* the characters the sanitizer is to keep
Allowed(c) == isalnum(c) \/ c \in {" ", "_", "-"}

\* the positions of text that hold an allowed character other than whitespace
Solid(text) == {n \in 1..Len(text) : Allowed(text[n]) /\ ~isspace(text[n])}

\* the allowed characters of text, in order, up to the last one that is not
\* whitespace
Expected(text) ==
    IF Solid(text) = {} THEN <<>>
    ELSE LET last == CHOOSE n \in Solid(text) : \A m \in Solid(text) : m <= n
         IN  SelectSeq(SubSeq(text, 1, last), Allowed)

RECURSIVE ParseNat(_)
\* the number a sequence of decimal digits denotes (-1 if it is none)
ParseNat(ds) ==
    IF ds = <<>> THEN -1
    ELSE LET d == ds[Len(ds)]
             init == SubSeq(ds, 1, Len(ds) - 1)
         IN  IF ~\E n \in 1..10 : DigitChars[n] = d THEN -1
             ELSE LET v == (CHOOSE n \in 1..10 : DigitChars[n] = d) - 1
                  IN  IF init = <<>> THEN v
                      ELSE IF ParseNat(init) < 0 THEN -1
                           ELSE 10 * ParseNat(init) + v

\* name ends with the decimal digits of position k, after an underscore
ContainsIndex(name, k) ==
    \E n \in 1..Len(name) :
        /\ name[n] = "_"
        /\ ParseNat(SubSeq(name, n + 1, Len(name))) = k

(* C7: the sanitized base name of key text v at position i is the           *)
(* alphanumeric, space, underscore and hyphen characters of v in their      *)
(* order, with trailing whitespace removed ("A/B*Co." gives "ABCo"); if     *)
(* that is empty the name is a placeholder that contains i; the name is     *)
(* never empty.                                                             *)
C7_Sanitizer ==
    pc # "san:value" =>
        /\ sname # <<>>
        /\ Expected(sv) # <<>> => sname = Expected(sv)
        /\ Expected(sv) = <<>> => ContainsIndex(sname, si)
        /\ sv = Example => sname = <<"A", "B", "C", "o">>

\* a key with punctuation inside and whitespace at both ends has been named
C7_Witness ==
    /\ pc = "san:named"
    /\ sv = <<" ", "/", "A">> \/ sv = <<"A", "\t", " ">>
    /\ sname \in {<<" ", "A">>, <<"A">>}

(* C8: the sanitizer is idempotent: applied at the same position to a name  *)
(* it produced (sanitized name or placeholder) it returns that name; and    *)
(* the placeholders for two different positions are different.              *)
C8_Idempotent ==
    /\ pc \in {"san:renamed", "san:done"} => sagain = sname
    /\ (pc = "san:done" /\ Expected(sv) = <<>>) => (si # sj /\ sother # sname)

\* a key that sanitizes to nothing was named at positions 1 and 11, and its
\* placeholder was sanitized again
C8_Witness ==
    /\ pc = "san:done"
    /\ sv = <<"/", " ">>
    /\ si = 1 /\ sj = 11
    /\ sagain = sname
    /\ Len(sother) = Len(sname) + 1

----------------------------------------------------------------------------
(* Properties of the run as a whole *)

Last(seq) == seq[Len(seq)]

IsPrefix(a, b) == Len(a) <= Len(b) /\ SubSeq(b, 1, Len(a)) = a

\* what the step out of Reconciling does
C9_Step ==
    pc = "Reconciling" =>
        /\ pc' = "Done"
        /\ ret' = "archive"
        /\ zf' = zf
        /\ IsPrefix(logs, logs')
        /\ total_rows = processed_rows_count =>
              /\ Last(logs') = <<"ok", total_rows, processed_rows_count>>
              /\ Len(logs') = Len(logs) + 3
        /\ total_rows # processed_rows_count =>
              /\ logs'[Len(logs') - 1] = <<"warn", total_rows - processed_rows_count>>
              /\ total_rows - processed_rows_count > 0
              /\ Last(logs') = <<"reason", column_name>>
              /\ Len(logs') = Len(logs) + 4

(* C9: reconciliation only writes to the log.  After the loop, equal        *)
(* counts are logged as success and a shortfall as a warning whose count    *)
(* is total rows minus processed rows, a positive number; either way the    *)
(* step ends the run in Done and returns the archive as the loop left it.   *)
C9_Advisory == [][C9_Step]_vars

\* a run that ended in Done with a warning for two unprocessed rows and a
\* member in the archive
C9_Witness ==
    /\ pc = "Done"
    /\ ret = "archive"
    /\ Len(zf) = 1
    /\ logs[Len(logs) - 1] = <<"warn", 2>>

\* the moves between phases
Edges ==
    { <<"Idle", "Reading">>,
      <<"Reading", "ExtractingKeys">>, <<"Reading", "Failed">>,
      <<"ExtractingKeys", "Partitioning">>, <<"ExtractingKeys", "Failed">>,
      <<"Partitioning", "Serializing">>, <<"Partitioning", "Reconciling">>,
      <<"Serializing", "Serializing">>, <<"Serializing", "Reconciling">>,
      <<"Serializing", "Failed">>,
      <<"Reconciling", "Done">> }

\* what every step of the run does to the phase and the log
C10_Step ==
    /\ <<pc, pc'>> \in Edges
    /\ IsPrefix(logs, logs')
    /\ pc # "Partitioning" => Len(logs') > Len(logs)
    /\ pc = "Partitioning" => logs' = logs
    /\ pc' = "Reading" => Last(logs') = <<"prepare">>
    /\ pc' = "ExtractingKeys" => logs' = Append(logs, <<"read", Len(sheet)>>)
    /\ pc' = "Partitioning" =>
          logs' = logs \o << <<"found", column_name, Len(unique_values')>>, <<"sep">> >>
    /\ pc' = "Serializing" => (pc = "Partitioning" <=> i' = 0)
    /\ (pc = "Serializing" /\ pc' # "Failed") =>
          /\ i' = i + 1
          /\ Len(logs') = Len(logs) + 1
          /\ Last(logs')[1] = "group" /\ Last(logs')[2] = i'
          /\ Last(logs')[3] = Len(unique_values)
          /\ pc' = "Reconciling" <=> i' = Len(unique_values)
    /\ (pc = "Partitioning" /\ pc' = "Reconciling") => unique_values = <<>>
    /\ pc' = "Done" => \E n \in 1..Len(logs') :
                           n > Len(logs) /\ logs'[n][1] \in {"ok", "warn"}
    /\ pc' = "Failed" => /\ logs'[Len(logs') - 1][1] = "error"
                         /\ Len(logs') = Len(logs) + 2

(* C10: every run goes through Idle, Reading, Extracting Keys,              *)
(* Partitioning, Serializing(i = 1..N, i increasing), Reconciling, Done in  *)
(* this order and ends in exactly one of Done and Failed; Failed is entered *)
(* only from Reading, Extracting Keys or Serializing; no phase is entered   *)
(* again; the log is written after reading, after key discovery, once per   *)
(* completed group in the order of i, and at reconciliation, and is only    *)
(* ever appended to.                                                        *)
C10_Phases == [][C10_Step]_vars /\ <>[](pc \in Terminal)

\* a run that went through every phase and serialized two groups
C10_Witness ==
    /\ pc = "Done"
    /\ i = 2
    /\ Len(logs) = 9
    /\ logs[5][1] = "group" /\ logs[5][2] = 1
    /\ logs[6][1] = "group" /\ logs[6][2] = 2

====
